---- MODULE Spec2Model ----
(***************************************************************************)
(* A model of my_hack_assembler.py: the two-pass translation of Hack       *)
(* assembly into 16-character binary words.                                *)
(*                                                                         *)
(* A Python str is modelled as a sequence of one-character strings, so     *)
(* "D=M" is <<"D", "=", "M">>.  Every operator that models a string        *)
(* operation (split, slicing, int, format, replace, dict lookup) works on  *)
(* the characters, as the Python code does.  The _input_file field only    *)
(* appears inside error messages and is left out; an exception is the      *)
(* record [type, msg, line, arg] of what its message is built from.        *)
(***************************************************************************)
EXTENDS Integers, Sequences, FiniteSets, TLC

VARIABLES
    lines,                   \* the lines of the input file read so far
    pc,                      \* where process_assembly is
    n,                       \* the loop index n of the second pass
    symbol_table,            \* HackAssembler._symbol_table
    effective_line_number,   \* HackAssembler._effective_line_number
    symbol_count,            \* HackAssembler._symbol_count
    effective_instructions,  \* process_assembly's list effective_instructions
    result,                  \* process_assembly's list result
    returned,                \* what process_assembly returned (NotReturned before)
    raised,                  \* the exception that left process_assembly (NoErr if none)
    call,                    \* the last method call made on the assembler
    outcome                  \* what that call returned or raised

vars == <<lines, pc, n, symbol_table, effective_line_number, symbol_count,
          effective_instructions, result, returned, raised, call, outcome>>

-----------------------------------------------------------------------------
(* Bounds of the model *)

\* The longest input file, in lines.
MaxLines == 3
\* The longest raw line given to strip_down alone, in characters.
MaxRawLen == 5
\* The longest C-instruction given to process_c_instruction alone, in tokens.
MaxTokens == 4
\* The most calls made on one assembler by a free caller.
MaxCalls == 4
\* The largest line number a free caller passes.
MaxLineNo == 2

-----------------------------------------------------------------------------
(* Python strings *)

\* Python's None: a value no string equals (a string's elements are single
\* characters).
None == <<"None">>

Digits == {"0", "1", "2", "3", "4", "5", "6", "7", "8", "9"}

DigitVal(ch) ==
    CASE ch = "0" -> 0 [] ch = "1" -> 1 [] ch = "2" -> 2 [] ch = "3" -> 3
      [] ch = "4" -> 4 [] ch = "5" -> 5 [] ch = "6" -> 6 [] ch = "7" -> 7
      [] ch = "8" -> 8 [] ch = "9" -> 9

DigitChar(d) == <<"0", "1", "2", "3", "4", "5", "6", "7", "8", "9">>[d + 1]

\* The characters str.split() cuts at (the ASCII ones but "\v").
Whitespace == {" ", "\t", "\n", "\r", "\f"}

IsWhitespace(ch) == ch \in Whitespace

\* s[i:] of Python, i counted from 0.
SliceFrom(s, i) == SubSeq(s, i + 1, Len(s))

\* s[:i] of Python, i counted from 0.
SliceTo(s, i) == SubSeq(s, 1, i)

\* ch in s
Contains(s, ch) == \E i \in 1..Len(s) : s[i] = ch

\* s.find(ch) + 1: the 1-based place of the first ch in s (0 if none).
FirstIndex(s, ch) ==
    IF Contains(s, ch)
    THEN CHOOSE i \in 1..Len(s) : s[i] = ch /\ \A j \in 1..(i - 1) : s[j] # ch
    ELSE 0

\* s.split(ch, 1): the list of the pieces, one piece when ch is not in s.
split1(s, ch) ==
    LET i == FirstIndex(s, ch)
    IN  IF i = 0 THEN <<s>>
        ELSE <<SubSeq(s, 1, i - 1), SubSeq(s, i + 1, Len(s))>>

\* s.replace(old, new) for single characters.
replace(s, old, new) == [i \in 1..Len(s) |-> IF s[i] = old THEN new ELSE s[i]]

\* str(k) of a natural number.
RECURSIVE NatStr(_)
NatStr(k) == IF k < 10 THEN <<DigitChar(k)>>
             ELSE Append(NatStr(k \div 10), DigitChar(k % 10))

\* str(k), f"{k}" of an integer.
IntStr(k) == IF k < 0 THEN <<"-">> \o NatStr(-k) ELSE NatStr(k)

\* Whether int(s) parses: an optional sign, then digits, where single
\* underscores may stand between two digits.  (s holds no whitespace here:
\* strip_down removed it.)
int_parses(s) ==
    LET body == IF s # <<>> /\ s[1] \in {"+", "-"} THEN SliceFrom(s, 1) ELSE s
    IN  /\ body # <<>>
        /\ \A i \in 1..Len(body) : body[i] \in Digits \cup {"_"}
        /\ body[1] \in Digits
        /\ body[Len(body)] \in Digits
        /\ \A i \in 1..(Len(body) - 1) : ~(body[i] = "_" /\ body[i + 1] = "_")

RECURSIVE DigitsValue(_, _)
DigitsValue(s, acc) ==
    IF s = <<>> THEN acc
    ELSE IF s[1] = "_" THEN DigitsValue(Tail(s), acc)
    ELSE DigitsValue(Tail(s), 10 * acc + DigitVal(s[1]))

\* int(s) where it parses.
int_value(s) ==
    IF s[1] = "-" THEN 0 - DigitsValue(SliceFrom(s, 1), 0)
    ELSE IF s[1] = "+" THEN DigitsValue(SliceFrom(s, 1), 0)
    ELSE DigitsValue(s, 0)

\* The w low binary digits of k, most significant first.
RECURSIVE Binary(_, _)
Binary(k, w) ==
    IF w = 0 THEN <<>>
    ELSE Append(Binary(k \div 2, w - 1), IF k % 2 = 1 THEN "1" ELSE "0")

\* format(k, "016b"): one digit too many.
format_016b(k) == Binary(k, 16)

\* format(k, "015b") for 0 <= k < 2**15.
format_015b(k) == Binary(k, 15)

-----------------------------------------------------------------------------
(* The mnemonic tables *)

_COMP ==
    <<"0">>           :> <<"1", "0", "1", "0", "1", "0">> @@
    <<"1">>           :> <<"1", "1", "1", "1", "1", "1">> @@
    <<"-", "1">>      :> <<"1", "1", "1", "0", "1", "0">> @@
    <<"D">>           :> <<"0", "0", "1", "1", "0", "0">> @@
    <<"A">>           :> <<"1", "1", "0", "0", "0", "0">> @@
    <<"!", "D">>      :> <<"0", "0", "1", "1", "0", "1">> @@
    <<"!", "A">>      :> <<"1", "1", "0", "0", "0", "1">> @@
    <<"-", "D">>      :> <<"0", "0", "1", "1", "1", "1">> @@
    <<"-", "A">>      :> <<"1", "1", "0", "0", "1", "1">> @@
    <<"D", "+", "1">> :> <<"0", "1", "1", "1", "1", "1">> @@
    <<"A", "+", "1">> :> <<"1", "1", "0", "1", "1", "1">> @@
    <<"D", "-", "1">> :> <<"0", "0", "1", "1", "1", "0">> @@
    <<"A", "-", "1">> :> <<"1", "1", "0", "0", "1", "0">> @@
    <<"D", "+", "A">> :> <<"0", "0", "0", "0", "1", "0">> @@
    <<"D", "-", "A">> :> <<"0", "1", "0", "0", "1", "1">> @@
    <<"A", "-", "D">> :> <<"0", "0", "0", "1", "1", "1">> @@
    <<"D", "&", "A">> :> <<"0", "0", "0", "0", "0", "0">> @@
    <<"D", "|", "A">> :> <<"0", "1", "0", "1", "0", "1">>

_DEST ==
    None              :> <<"0", "0", "0">> @@
    <<"M">>           :> <<"0", "0", "1">> @@
    <<"D">>           :> <<"0", "1", "0">> @@
    <<"M", "D">>      :> <<"0", "1", "1">> @@
    <<"A">>           :> <<"1", "0", "0">> @@
    <<"A", "M">>      :> <<"1", "0", "1">> @@
    <<"A", "D">>      :> <<"1", "1", "0">> @@
    <<"A", "M", "D">> :> <<"1", "1", "1">>

_JUMP ==
    None              :> <<"0", "0", "0">> @@
    <<"J", "G", "T">> :> <<"0", "0", "1">> @@
    <<"J", "E", "Q">> :> <<"0", "1", "0">> @@
    <<"J", "G", "E">> :> <<"0", "1", "1">> @@
    <<"J", "L", "T">> :> <<"1", "0", "0">> @@
    <<"J", "N", "E">> :> <<"1", "0", "1">> @@
    <<"J", "L", "E">> :> <<"1", "1", "0">> @@
    <<"J", "M", "P">> :> <<"1", "1", "1">>

-----------------------------------------------------------------------------
(* Exceptions and results *)

NoErr == [type |-> "none", msg |-> "", line |-> 0, arg |-> <<>>]

\* raise HackAssemblyError(f"...")
HackAssemblyError(msg, line_number, arg) ==
    [type |-> "HackAssemblyError", msg |-> msg, line |-> line_number, arg |-> arg]

\* The ValueError of unpacking a list of one element into two names: its
\* message names no line.
ValueError ==
    [type |-> "ValueError", msg |-> "not enough values to unpack",
     line |-> 0, arg |-> <<>>]

\* process_assembly has not returned.
NotReturned == <<"NotReturned">>

-----------------------------------------------------------------------------
(* class HackAssembler *)

\* The name f"R{i}".
RName(i) == <<"R">> \o NatStr(i)

\* init_symbol_table(): a later assignment to a name would replace an
\* earlier one, so the later assignments stand to the left of @@.
init_symbol_table ==
    <<"T", "H", "A", "T">>           :> 4 @@
    <<"T", "H", "I", "S">>           :> 3 @@
    <<"A", "R", "G">>                :> 2 @@
    <<"L", "C", "L">>                :> 1 @@
    <<"S", "P">>                     :> 0 @@
    <<"K", "B", "D">>                :> 24576 @@
    <<"S", "C", "R", "E", "E", "N">> :> 16384 @@
    [name \in {RName(i) : i \in 0..15} |->
        CHOOSE i \in 0..15 : RName(i) = name]

\* sym_table[name] = address
SetItem(table, name, address) == (name :> address) @@ table

\* strip_down that keeps the first '/' of the comment marker.
strip_down_cuts_late(line, line_number) ==
    LET stripped == SelectSeq(line, LAMBDA ch : ~IsWhitespace(ch))
        i == FirstIndex(stripped, "/")
    IN  IF i = 0
        THEN [raised |-> NoErr, ret |-> stripped]
        ELSE IF i + 1 <= Len(stripped) /\ stripped[i + 1] = "/"
        THEN [raised |-> NoErr, ret |-> SliceTo(stripped, i)]
        ELSE [raised |-> HackAssemblyError("Invalid '/'", line_number, <<>>),
              ret |-> None]

\* strip_down that takes any '/' for the start of a comment.
strip_down_any_slash(line, line_number) ==
    LET stripped == SelectSeq(line, LAMBDA ch : ~IsWhitespace(ch))
        i == FirstIndex(stripped, "/")
    IN  IF i = 0
        THEN [raised |-> NoErr, ret |-> stripped]
        ELSE [raised |-> NoErr, ret |-> SliceTo(stripped, i - 1)]

\* strip_down(line, line_number): [raised, ret].
strip_down(line, line_number) ==
    LET stripped == SelectSeq(line, LAMBDA ch : ~IsWhitespace(ch))
        \* the first i at which the loop meets ch == "/" (1-based; 0: never)
        i == FirstIndex(stripped, "/")
    IN  IF i = 0
        THEN [raised |-> NoErr, ret |-> stripped]
        ELSE IF i + 1 <= Len(stripped) /\ stripped[i + 1] = "/"
        THEN IF i = 1
             THEN [raised |-> NoErr, ret |-> <<>>]
             ELSE [raised |-> NoErr, ret |-> SliceTo(stripped, i - 1)]
        ELSE [raised |-> HackAssemblyError("Invalid '/'", line_number, <<>>),
              ret |-> None]

\* first_pass that counts a label line as an instruction too.
first_pass_counts_labels(table, eln, instruction, line_number) ==
    IF instruction = <<>>
    THEN [raised |-> NoErr, ret |-> <<>>,
          symbol_table |-> table, effective_line_number |-> eln]
    ELSE IF instruction[1] = "("
    THEN IF instruction[Len(instruction)] = ")"
         THEN LET label == SubSeq(instruction, 2, Len(instruction) - 1)
              IN  IF label \notin DOMAIN table
                  THEN [raised |-> NoErr, ret |-> <<>>,
                        symbol_table |-> SetItem(table, label, eln),
                        effective_line_number |-> eln + 1]
                  ELSE [raised |-> HackAssemblyError("is already defined",
                                                     line_number, label),
                        ret |-> None,
                        symbol_table |-> table, effective_line_number |-> eln]
         ELSE [raised |-> HackAssemblyError("Missing closing ')'", line_number, <<>>),
               ret |-> None,
               symbol_table |-> table, effective_line_number |-> eln]
    ELSE [raised |-> NoErr, ret |-> instruction,
          symbol_table |-> table, effective_line_number |-> eln + 1]

\* first_pass without the test "label not in self._symbol_table": a label
\* is defined whatever the table holds.
first_pass_overwrites(table, eln, instruction, line_number) ==
    IF instruction = <<>>
    THEN [raised |-> NoErr, ret |-> <<>>,
          symbol_table |-> table, effective_line_number |-> eln]
    ELSE IF instruction[1] = "("
    THEN IF instruction[Len(instruction)] = ")"
         THEN [raised |-> NoErr, ret |-> <<>>,
               symbol_table |->
                   SetItem(table, SubSeq(instruction, 2, Len(instruction) - 1), eln),
               effective_line_number |-> eln]
         ELSE [raised |-> HackAssemblyError("Missing closing ')'", line_number, <<>>),
               ret |-> None,
               symbol_table |-> table, effective_line_number |-> eln]
    ELSE [raised |-> NoErr, ret |-> instruction,
          symbol_table |-> table, effective_line_number |-> eln + 1]

\* first_pass(instruction, line_number) on an assembler whose fields are
\* table and eln: [raised, ret, symbol_table, effective_line_number].
first_pass(table, eln, instruction, line_number) ==
    IF instruction = <<>>
    THEN [raised |-> NoErr, ret |-> <<>>,
          symbol_table |-> table, effective_line_number |-> eln]
    ELSE IF instruction[1] = "("
    THEN IF instruction[Len(instruction)] = ")"
         THEN LET label == SubSeq(instruction, 2, Len(instruction) - 1)
              IN  IF label \notin DOMAIN table
                  THEN [raised |-> NoErr, ret |-> <<>>,
                        symbol_table |-> SetItem(table, label, eln),
                        effective_line_number |-> eln]
                  ELSE [raised |-> HackAssemblyError("is already defined",
                                                     line_number, label),
                        ret |-> None,
                        symbol_table |-> table, effective_line_number |-> eln]
         ELSE [raised |-> HackAssemblyError("Missing closing ')'", line_number, <<>>),
               ret |-> None,
               symbol_table |-> table, effective_line_number |-> eln]
    ELSE [raised |-> NoErr, ret |-> instruction,
          symbol_table |-> table, effective_line_number |-> eln + 1]

\* The address of a new variable counted from 17.
next_variable_address_off_by_one(count) == 16 + count + 1

\* 16 + self._symbol_count: the address of a new variable.
next_variable_address(count) == 16 + count

\* process_a_instruction(instruction, line_number) on an assembler whose
\* fields are table and count: [raised, ret, symbol_table, symbol_count].
process_a_instruction(table, count, instruction, line_number) ==
    LET address_part == SliceFrom(instruction, 1)
        is_decimal == int_parses(address_part)
        allocates == ~is_decimal /\ address_part \notin DOMAIN table
        table1 == IF allocates
                  THEN SetItem(table, address_part, next_variable_address(count))
                  ELSE table
        count1 == IF allocates THEN count + 1 ELSE count
        address_decimal == IF is_decimal THEN int_value(address_part)
                           ELSE table1[address_part]
    IN  IF address_part = <<>>
        THEN [raised |-> HackAssemblyError("Missing address for A instruction",
                                           line_number, <<>>),
              ret |-> None, symbol_table |-> table, symbol_count |-> count]
        ELSE IF ~(0 <= address_decimal /\ address_decimal < 2^15)
        THEN [raised |-> HackAssemblyError("is out of range (0-32767)",
                                           line_number, IntStr(address_decimal)),
              ret |-> None, symbol_table |-> table1, symbol_count |-> count1]
        ELSE [raised |-> NoErr, ret |-> <<"0">> \o format_015b(address_decimal),
              symbol_table |-> table1, symbol_count |-> count1]

\* process_c_instruction that looks for 'M' in the whole instruction.
process_c_instruction_m_anywhere(instruction, line_number) ==
    LET has_eq == Contains(instruction, "=")
        eq_parts == split1(instruction, "=")
        dest_inst == IF has_eq THEN eq_parts[1] ELSE None
        rest == IF has_eq THEN eq_parts[2] ELSE instruction
        has_semi == Contains(instruction, ";")
        semi_parts == split1(rest, ";")
        comp_inst == IF has_semi THEN semi_parts[1] ELSE rest
        jump_inst == IF has_semi THEN semi_parts[2] ELSE None
        a_bit == IF Contains(instruction, "M") THEN "1" ELSE "0"
        comp_key == replace(comp_inst, "M", "A")
    IN  IF has_semi /\ Len(semi_parts) # 2
        THEN [raised |-> ValueError, ret |-> None]
        ELSE IF \/ comp_key \notin DOMAIN _COMP
                \/ dest_inst \notin DOMAIN _DEST
                \/ jump_inst \notin DOMAIN _JUMP
        THEN [raised |-> HackAssemblyError("Illegal C-instruction",
                                           line_number, instruction),
              ret |-> None]
        ELSE [raised |-> NoErr,
              ret |-> <<"1", "1", "1">> \o <<a_bit>> \o _COMP[comp_key]
                      \o _DEST[dest_inst] \o _JUMP[jump_inst]]

\* process_c_instruction(instruction, line_number): [raised, ret].
process_c_instruction(instruction, line_number) ==
    LET has_eq == Contains(instruction, "=")
        eq_parts == split1(instruction, "=")
        dest_inst == IF has_eq THEN eq_parts[1] ELSE None
        rest == IF has_eq THEN eq_parts[2] ELSE instruction
        \* the test is made on the whole instruction, the split on rest
        has_semi == Contains(instruction, ";")
        semi_parts == split1(rest, ";")
        comp_inst == IF has_semi THEN semi_parts[1] ELSE rest
        jump_inst == IF has_semi THEN semi_parts[2] ELSE None
        a_bit == IF Contains(comp_inst, "M") THEN "1" ELSE "0"
        comp_key == replace(comp_inst, "M", "A")
    IN  IF has_semi /\ Len(semi_parts) # 2
        THEN [raised |-> ValueError, ret |-> None]
        ELSE IF \/ comp_key \notin DOMAIN _COMP
                \/ dest_inst \notin DOMAIN _DEST
                \/ jump_inst \notin DOMAIN _JUMP
        THEN [raised |-> HackAssemblyError("Illegal C-instruction",
                                           line_number, instruction),
              ret |-> None]
        ELSE [raised |-> NoErr,
              ret |-> <<"1", "1", "1">> \o <<a_bit>> \o _COMP[comp_key]
                      \o _DEST[dest_inst] \o _JUMP[jump_inst]]

\* process_instruction(instruction, line_number):
\* [raised, ret, symbol_table, symbol_count].
process_instruction(table, count, instruction, line_number) ==
    IF instruction = <<>>
    THEN [raised |-> NoErr, ret |-> None,
          symbol_table |-> table, symbol_count |-> count]
    ELSE IF instruction[1] = "@"
    THEN process_a_instruction(table, count, instruction, line_number)
    ELSE LET c == process_c_instruction(instruction, line_number)
         IN  [raised |-> c.raised, ret |-> c.ret,
              symbol_table |-> table, symbol_count |-> count]

-----------------------------------------------------------------------------
(* process_assembly: the inputs *)

\* The raw lines an input file is made of.
RawLines == {
    <<" ", "\n">>,                          \* a blank line
    <<"/", "/", " ", "c", "\n">>,           \* a comment-only line
    <<"(", "X", ")", "\n">>,                \* a label
    <<"(", "1", "6", ")">>,                 \* a label whose name reads as a number
    <<"(", "R", "0", ")">>,                 \* a label with a predefined name
    <<"(", "X">>,                           \* a label without ')'
    <<"@", "X", "\n">>,
    <<"@", "x">>,
    <<"@", "y">>,
    <<"@", "1", "6">>,
    <<"@", "3", "2", "7", "6", "8">>,       \* an address out of range
    <<"@">>,                                \* no operand
    <<"D", "=", "M", " ", "/", "/", "c">>,  \* a C-instruction and a comment
    <<"(", ")", "\n">>,                     \* a label with the empty name
    <<";", "=">>,                           \* a ';' before the '='
    <<"D", "=", "Q">>,                      \* no such comp
    <<"A", "=", "M", "/", "2">>             \* a stray '/'
}

-----------------------------------------------------------------------------
(* process_assembly *)

\* line_number = n + 1 of "for n, x in enumerate(xs)", n being the index of
\* the element in xs.
enumerate_line_number(xs, k) == k + 1

NoCall == [op |-> "none", instruction |-> <<>>, line_number |-> 0]
NoOutcome == [raised |-> NoErr, ret |-> None]

\* assembler = HackAssembler(input_file); effective_instructions = []
Init ==
    /\ lines = <<>>
    /\ pc = "pass1"
    /\ n = 0
    /\ symbol_table = init_symbol_table
    /\ effective_line_number = 0
    /\ symbol_count = 0
    /\ effective_instructions = <<>>
    /\ result = <<>>
    /\ returned = NotReturned
    /\ raised = NoErr
    /\ call = NoCall
    /\ outcome = NoOutcome

\* One turn of the first loop: the file yields `line`, which is stripped
\* down and given to first_pass.
ReadLine(line) ==
    /\ pc = "pass1"
    /\ Len(lines) < MaxLines
    /\ LET line_number == enumerate_line_number(Append(lines, line), Len(lines))
           s == strip_down(line, line_number)
           f == first_pass(symbol_table, effective_line_number, s.ret, line_number)
       IN  /\ lines' = Append(lines, line)
           /\ IF s.raised # NoErr
              THEN /\ pc' = "error"
                   /\ raised' = s.raised
                   /\ call' = [op |-> "strip_down", instruction |-> line,
                               line_number |-> line_number]
                   /\ outcome' = s
                   /\ UNCHANGED <<symbol_table, effective_line_number,
                                  effective_instructions>>
              ELSE /\ call' = [op |-> "first_pass", instruction |-> s.ret,
                               line_number |-> line_number]
                   /\ outcome' = [raised |-> f.raised, ret |-> f.ret]
                   /\ symbol_table' = f.symbol_table
                   /\ effective_line_number' = f.effective_line_number
                   /\ IF f.raised # NoErr
                      THEN /\ pc' = "error"
                           /\ raised' = f.raised
                           /\ UNCHANGED effective_instructions
                      ELSE /\ effective_instructions' =
                                  Append(effective_instructions, f.ret)
                           /\ UNCHANGED <<pc, raised>>
    /\ UNCHANGED <<n, symbol_count, result, returned>>

\* The file is at its end: the first loop is left, result = [].
EndOfFile ==
    /\ pc = "pass1"
    /\ pc' = "pass2"
    /\ n' = 0
    /\ result' = <<>>
    /\ UNCHANGED <<lines, symbol_table, effective_line_number, symbol_count,
                   effective_instructions, returned, raised, call, outcome>>

\* One turn of the second loop.
SecondPassStep ==
    /\ pc = "pass2"
    /\ n < Len(effective_instructions)
    /\ LET inst == effective_instructions[n + 1]
           line_number == enumerate_line_number(effective_instructions, n)
           r == process_instruction(symbol_table, symbol_count, inst, line_number)
       IN  IF inst # <<>>
           THEN /\ call' = [op |-> "process_instruction", instruction |-> inst,
                            line_number |-> line_number]
                /\ outcome' = [raised |-> r.raised, ret |-> r.ret]
                /\ symbol_table' = r.symbol_table
                /\ symbol_count' = r.symbol_count
                /\ IF r.raised # NoErr
                   THEN /\ pc' = "error"
                        /\ raised' = r.raised
                        /\ UNCHANGED <<n, result>>
                   ELSE /\ result' = Append(result, r.ret)
                        /\ n' = n + 1
                        /\ UNCHANGED <<pc, raised>>
           ELSE /\ n' = n + 1
                /\ UNCHANGED <<pc, raised, call, outcome, symbol_table,
                               symbol_count, result>>
    /\ UNCHANGED <<lines, effective_line_number, effective_instructions, returned>>

\* return result
Return ==
    /\ pc = "pass2"
    /\ n = Len(effective_instructions)
    /\ pc' = "done"
    /\ returned' = result
    /\ UNCHANGED <<lines, n, symbol_table, effective_line_number, symbol_count,
                   effective_instructions, result, raised, call, outcome>>

Next ==
    \/ \E line \in RawLines : ReadLine(line)
    \/ EndOfFile
    \/ SecondPassStep
    \/ Return

Spec == Init /\ [][Next]_vars

-----------------------------------------------------------------------------
(* The C-instructions the tables allow *)

\* key with any of its 'A' written 'M'.
MVariants(key) ==
    {[i \in 1..Len(key) |-> IF i \in S THEN "M" ELSE key[i]] :
        S \in SUBSET {i \in 1..Len(key) : key[i] = "A"}}

\* The comp mnemonics: those of the table, and their M forms.
CompMnemonics == UNION {MVariants(key) : key \in DOMAIN _COMP}

\* The instruction [dest=]comp[;jump]; None is an absent part.
Compose(d, c, j) ==
    (IF d = None THEN <<>> ELSE d \o <<"=">>)
    \o c
    \o (IF j = None THEN <<>> ELSE <<";">> \o j)

LegalCInstructions ==
    {Compose(d, c, j) : d \in DOMAIN _DEST, c \in CompMnemonics, j \in DOMAIN _JUMP}

-----------------------------------------------------------------------------
(* One method called alone on a fresh assembler *)

\* The sequences over S of length k at most.
SeqsUpTo(S, k) == UNION {[1..m -> S] : m \in 0..k}

RECURSIVE Concat(_)
Concat(ss) == IF ss = <<>> THEN <<>> ELSE ss[1] \o Concat(Tail(ss))

\* The raw lines strip_down is given.
StripAlphabet == {" ", "\n", "/", "A"}
StripInputs ==
    SeqsUpTo(StripAlphabet, MaxRawLen) \cup {<<"A", "=", "M", "/", "2">>}

\* The instructions process_c_instruction is given: every instruction the
\* tables allow, and every string of a few tokens.
CTokens == {<<"D">>, <<"M">>, <<"A">>, <<"0">>, <<"=">>, <<";">>,
            <<"J", "M", "P">>, <<"D", "+", "M">>}
CInputs ==
    LegalCInstructions
    \cup ({Concat(ts) : ts \in SeqsUpTo(CTokens, MaxTokens)} \ {<<>>})

\* A fresh assembler and the arguments of the call to come.
InitCall(op, inputs) ==
    /\ lines = <<>>
    /\ pc = "arg"
    /\ n = 0
    /\ symbol_table = init_symbol_table
    /\ effective_line_number = 0
    /\ symbol_count = 0
    /\ effective_instructions = <<>>
    /\ result = <<>>
    /\ returned = NotReturned
    /\ raised = NoErr
    /\ \E instruction \in inputs, line_number \in 1..MaxLineNo :
          call = [op |-> op, instruction |-> instruction,
                  line_number |-> line_number]
    /\ outcome = NoOutcome

InitStrip == InitCall("strip_down", StripInputs)

\* assembler.strip_down(line, line_number)
CallStripDown ==
    /\ pc = "arg"
    /\ call.op = "strip_down"
    /\ pc' = "called"
    /\ outcome' = strip_down(call.instruction, call.line_number)
    /\ UNCHANGED <<lines, n, symbol_table, effective_line_number, symbol_count,
                   effective_instructions, result, returned, raised, call>>

SpecStrip == InitStrip /\ [][CallStripDown]_vars

InitC == InitCall("process_c_instruction", CInputs)

\* assembler.process_c_instruction(instruction, line_number)
CallProcessC ==
    /\ pc = "arg"
    /\ call.op = "process_c_instruction"
    /\ pc' = "called"
    /\ outcome' = process_c_instruction(call.instruction, call.line_number)
    /\ UNCHANGED <<lines, n, symbol_table, effective_line_number, symbol_count,
                   effective_instructions, result, returned, raised, call>>

SpecC == InitC /\ [][CallProcessC]_vars

-----------------------------------------------------------------------------
(* A caller that calls first_pass and process_instruction on one assembler *)
(* in any order                                                            *)

CallerInstructions == {
    <<>>,
    <<"(", "X", ")">>,
    <<"(", "x", ")">>,
    <<"(", "S", "P", ")">>,
    <<"(", "X">>,
    <<"@", "X">>,
    <<"@", "x">>,
    <<"@", "y">>,
    <<"@", "7">>,
    <<"D", "=", "M">>
}

InitCaller ==
    /\ lines = <<>>
    /\ pc = "caller"
    /\ n = 0
    /\ symbol_table = init_symbol_table
    /\ effective_line_number = 0
    /\ symbol_count = 0
    /\ effective_instructions = <<>>
    /\ result = <<>>
    /\ returned = NotReturned
    /\ raised = NoErr
    /\ call = NoCall
    /\ outcome = NoOutcome

\* assembler.first_pass(instruction, line_number); n counts the calls.
CallFirstPass(instruction, line_number) ==
    /\ pc = "caller"
    /\ n < MaxCalls
    /\ LET f == first_pass(symbol_table, effective_line_number, instruction,
                           line_number)
       IN  /\ symbol_table' = f.symbol_table
           /\ effective_line_number' = f.effective_line_number
           /\ outcome' = [raised |-> f.raised, ret |-> f.ret]
    /\ call' = [op |-> "first_pass", instruction |-> instruction,
                line_number |-> line_number]
    /\ n' = n + 1
    /\ UNCHANGED <<lines, pc, symbol_count, effective_instructions, result,
                   returned, raised>>

\* assembler.process_instruction(instruction, line_number)
CallProcessInstruction(instruction, line_number) ==
    /\ pc = "caller"
    /\ n < MaxCalls
    /\ LET r == process_instruction(symbol_table, symbol_count, instruction,
                                    line_number)
       IN  /\ symbol_table' = r.symbol_table
           /\ symbol_count' = r.symbol_count
           /\ outcome' = [raised |-> r.raised, ret |-> r.ret]
    /\ call' = [op |-> "process_instruction", instruction |-> instruction,
                line_number |-> line_number]
    /\ n' = n + 1
    /\ UNCHANGED <<lines, pc, effective_line_number, effective_instructions,
                   result, returned, raised>>

NextCaller ==
    \E instruction \in CallerInstructions, line_number \in 1..MaxLineNo :
        \/ CallFirstPass(instruction, line_number)
        \/ CallProcessInstruction(instruction, line_number)

SpecCaller == InitCaller /\ [][NextCaller]_vars

-----------------------------------------------------------------------------
(* The terms the claims are stated in, written from the claims and not     *)
(* from the code.                                                          *)

\* A raw line with its whitespace removed.
NoWs(line) == SelectSeq(line, LAMBDA ch : ch \notin Whitespace)

\* Whether a comment marker, two adjacent slashes, starts at s[i].
MarkerAt(s, i) == i + 1 <= Len(s) /\ s[i] = "/" /\ s[i + 1] = "/"

HasMarker(s) == \E i \in 1..Len(s) : MarkerAt(s, i)

\* Where the first comment marker of s starts.
FirstMarker(s) ==
    CHOOSE i \in 1..Len(s) : MarkerAt(s, i) /\ \A j \in 1..(i - 1) : ~MarkerAt(s, j)

\* s cut at its first comment marker.
CutAtMarker(s) == IF HasMarker(s) THEN SubSeq(s, 1, FirstMarker(s) - 1) ELSE s

\* s holds a '/' that no '/' follows immediately and that lies before any
\* comment marker.
LoneSlash(s) ==
    \E i \in 1..Len(s) :
        /\ s[i] = "/"
        /\ ~(i + 1 <= Len(s) /\ s[i + 1] = "/")
        /\ \A j \in 1..(i - 1) : ~MarkerAt(s, j)

\* The normalized form of a raw line: no whitespace, no comment.
Normal(line) == CutAtMarker(NoWs(line))

\* The kinds of source lines.
IsBlankLine(line) == Normal(line) = <<>>
StartsLabel(line) == Normal(line) # <<>> /\ Normal(line)[1] = "("
IsLabelLine(line) == StartsLabel(line) /\ Normal(line)[Len(Normal(line))] = ")"
LabelName(line) == SubSeq(Normal(line), 2, Len(Normal(line)) - 1)
IsEffective(line) == ~IsBlankLine(line) /\ ~StartsLabel(line)
IsAInstruction(line) == IsEffective(line) /\ Normal(line)[1] = "@"
Operand(line) == SubSeq(Normal(line), 2, Len(Normal(line)))

\* The 23 predefined symbols.
Predefined ==
    <<"R", "0">> :> 0 @@ <<"R", "1">> :> 1 @@ <<"R", "2">> :> 2 @@
    <<"R", "3">> :> 3 @@ <<"R", "4">> :> 4 @@ <<"R", "5">> :> 5 @@
    <<"R", "6">> :> 6 @@ <<"R", "7">> :> 7 @@ <<"R", "8">> :> 8 @@
    <<"R", "9">> :> 9 @@ <<"R", "1", "0">> :> 10 @@ <<"R", "1", "1">> :> 11 @@
    <<"R", "1", "2">> :> 12 @@ <<"R", "1", "3">> :> 13 @@
    <<"R", "1", "4">> :> 14 @@ <<"R", "1", "5">> :> 15 @@
    <<"S", "P">> :> 0 @@ <<"L", "C", "L">> :> 1 @@ <<"A", "R", "G">> :> 2 @@
    <<"T", "H", "I", "S">> :> 3 @@ <<"T", "H", "A", "T">> :> 4 @@
    <<"S", "C", "R", "E", "E", "N">> :> 16384 @@ <<"K", "B", "D">> :> 24576

\* The number of effective instructions among the first j lines of src.
EffectiveBefore(src, j) == Cardinality({i \in 1..j : IsEffective(src[i])})

\* The effective instructions of the source, in source order.
EffectiveLines(src) == SelectSeq(src, IsEffective)

\* The source line number of the k-th effective instruction (k from 1).
SourceLineOf(src, k) ==
    CHOOSE j \in 1..Len(src) : IsEffective(src[j]) /\ EffectiveBefore(src, j) = k

\* The 16-character word of an address.
AddressWord(a) == <<"0">> \o Binary(a, 15)

IsWord(w) == Len(w) = 16 /\ \A i \in 1..16 : w[i] \in {"0", "1"}

\* The second pass has met an error.
FailedInSecondPass == pc = "error" /\ call.op = "process_instruction"

\* The first pass is over.
FirstPassOver == pc \in {"pass2", "done"} \/ FailedInSecondPass

-----------------------------------------------------------------------------
(* C1 *)

\* C1: when process_assembly returns, it returns one string for each
\* effective instruction of the source (a normalized line that is neither
\* empty nor a label line), in source order (the word of an A-instruction
\* starts with 0, that of any other instruction with 1, and the word of
\* '@literal' is the literal in binary), each of exactly 16 characters
\* over {0, 1}; blank, comment-only and label lines give no string.
C1_OneWordPerEffectiveInstruction ==
    pc = "done" =>
        LET eff == EffectiveLines(lines)
        IN  /\ Len(returned) = Len(eff)
            /\ \A j \in 1..Len(returned) :
                /\ IsWord(returned[j])
                /\ (returned[j][1] = "0") <=> IsAInstruction(eff[j])
                /\ (IsAInstruction(eff[j]) /\ Operand(eff[j]) = <<"1", "6">>)
                       => returned[j] = AddressWord(16)

\* A source of three lines, one of them a label, a blank or a comment, was
\* assembled into two words, an A-instruction's and a C-instruction's.
C1_Witness ==
    /\ pc = "done"
    /\ Len(lines) = 3
    /\ Len(returned) = 2
    /\ returned[1][1] # returned[2][1]
    /\ \E j \in 1..3 : IsLabelLine(lines[j])

-----------------------------------------------------------------------------
(* C7 *)

\* The label line j of src has a name that a predefined symbol or an
\* earlier label line of src has.
RedefinesLabel(src, j) ==
    /\ ~LoneSlash(NoWs(src[j]))
    /\ IsLabelLine(src[j])
    /\ \/ LabelName(src[j]) \in DOMAIN Predefined
       \/ \E i \in 1..(j - 1) :
            IsLabelLine(src[i]) /\ LabelName(src[i]) = LabelName(src[j])

\* C7: a label line whose name is already in the symbol table (from an
\* earlier label line or predefined) makes first_pass fail with the
\* duplicate-definition error, which names the label and the line number of
\* this occurrence.
C7_DuplicateLabelFails ==
    \A j \in 1..Len(lines) :
        RedefinesLabel(lines, j) =>
            /\ pc = "error"
            /\ call.op = "first_pass"
            /\ raised = HackAssemblyError("is already defined", j, LabelName(lines[j]))

\* The third line defines again the label of the first line, and the error
\* names line 3.
C7_Witness ==
    /\ Len(lines) = 3
    /\ IsLabelLine(lines[1])
    /\ ~IsLabelLine(lines[2])
    /\ RedefinesLabel(lines, 3)
    /\ LabelName(lines[3]) = LabelName(lines[1])
    /\ raised.line = 3

-----------------------------------------------------------------------------
(* C9 *)

\* C9: an error raised while the second pass encodes an instruction reports
\* the line number the instruction has in the source file, blank, comment
\* and label lines counted.
C9_SecondPassErrorLine ==
    FailedInSecondPass => raised.line = SourceLineOf(lines, Len(result) + 1)

-----------------------------------------------------------------------------
(* C2 *)

\* The second pass has encoded line i of src.
Encoded(src, i) == IsEffective(src[i]) /\ EffectiveBefore(src, i) <= Len(result)

\* The word the second pass gave for line i of src.
WordOf(src, i) == result[EffectiveBefore(src, i)]

LabelNames(src) == {LabelName(src[j]) : j \in {h \in 1..Len(src) : IsLabelLine(src[h])}}

\* The names the table holds beside the predefined ones and the labels.
VariableNames(src) == DOMAIN symbol_table \ (DOMAIN Predefined \cup LabelNames(src))

\* C2 as stated: when the source has assembled, every '@X' naming the label
\* of a label line that stands after k effective instructions has the word
\* of address k.
C2_Original ==
    pc = "done" =>
        \A j, i \in 1..Len(lines) :
            (/\ IsLabelLine(lines[j])
             /\ IsAInstruction(lines[i])
             /\ Operand(lines[i]) = LabelName(lines[j]))
                => returned[EffectiveBefore(lines, i)]
                       = AddressWord(EffectiveBefore(lines, j))

\* C2, amended: once the first pass is over, the label X of a label line
\* that stands after k effective instructions is in the table at k and
\* stays there; every '@X', before or after the label line, whose X is not
\* empty and does not read as an integer, is encoded without error as
\* address k; and the variable counter counts no label.
C2_LabelResolvesToK ==
    FirstPassOver =>
        /\ \A j \in 1..Len(lines) :
            IsLabelLine(lines[j]) =>
                LET X == LabelName(lines[j])
                    k == EffectiveBefore(lines, j)
                IN  /\ X \in DOMAIN symbol_table
                    /\ symbol_table[X] = k
                    /\ \A i \in 1..Len(lines) :
                        (/\ IsAInstruction(lines[i])
                         /\ Operand(lines[i]) = X
                         /\ X # <<>>
                         /\ ~int_parses(X))
                            => /\ Encoded(lines, i) => WordOf(lines, i) = AddressWord(k)
                               /\ FailedInSecondPass => call.line_number # i
        /\ symbol_count = Cardinality(VariableNames(lines))

\* '@X' was encoded before the line (X), which stands after two effective
\* instructions, and the source has assembled.
C2_Witness ==
    /\ pc = "done"
    /\ Len(lines) = 3
    /\ IsAInstruction(lines[1])
    /\ IsEffective(lines[2])
    /\ IsLabelLine(lines[3])
    /\ Operand(lines[1]) = LabelName(lines[3])
    /\ ~int_parses(LabelName(lines[3]))
    /\ returned[1] = AddressWord(2)

-----------------------------------------------------------------------------
(* C3 *)

\* Line i of src is an A-instruction whose operand is a symbol that is
\* neither predefined nor a label: a variable.
IsVariableRef(src, i) ==
    /\ IsAInstruction(src[i])
    /\ Operand(src[i]) # <<>>
    /\ ~int_parses(Operand(src[i]))
    /\ Operand(src[i]) \notin DOMAIN Predefined \cup LabelNames(src)

\* Line i of src is the first to use its variable.
IsFirstUse(src, i) ==
    /\ IsVariableRef(src, i)
    /\ \A h \in 1..(i - 1) :
        ~(IsVariableRef(src, h) /\ Operand(src[h]) = Operand(src[i]))

\* The number j of the variable of line i: how many distinct variables were
\* first used before it was.
VariableNumber(src, i) ==
    LET first == CHOOSE f \in 1..i :
                    IsFirstUse(src, f) /\ Operand(src[f]) = Operand(src[i])
    IN  Cardinality({h \in 1..(first - 1) : IsFirstUse(src, h)})

-----------------------------------------------------------------------------
(* C5 *)

Min(S) == CHOOSE x \in S : \A y \in S : x <= y

\* The kind of error the first pass has for line j of src ("" if none).
FirstPassFault(src, j) ==
    IF LoneSlash(NoWs(src[j])) THEN "Invalid '/'"
    ELSE IF StartsLabel(src[j]) /\ ~IsLabelLine(src[j]) THEN "Missing closing ')'"
    ELSE IF RedefinesLabel(src, j) THEN "is already defined"
    ELSE ""

\* The kind of error the second pass has for line j of src ("" if none).
\* (A label or a variable is never out of range in a file this short.)
SecondPassFault(src, j) ==
    IF LoneSlash(NoWs(src[j])) \/ ~IsEffective(src[j]) THEN ""
    ELSE IF IsAInstruction(src[j])
    THEN IF Operand(src[j]) = <<>> THEN "Missing address for A instruction"
         ELSE IF /\ int_parses(Operand(src[j]))
                 /\ int_value(Operand(src[j])) \notin 0..32767
         THEN "is out of range (0-32767)"
         ELSE ""
    ELSE IF Normal(src[j]) \notin LegalCInstructions THEN "Illegal C-instruction"
    ELSE ""

FirstPassFaults(src) == {j \in 1..Len(src) : FirstPassFault(src, j) # ""}
SecondPassFaults(src) == {j \in 1..Len(src) : SecondPassFault(src, j) # ""}

\* C5 as stated: the error raised is the one for the malformed line with
\* the smallest line number (the call that raises is the call made for
\* that line).
C5_Original ==
    pc = "error" =>
        call.line_number = Min(FirstPassFaults(lines) \cup SecondPassFaults(lines))

\* C5, amended: the run fails on the first error in the order of
\* processing.  While lines are read no line read before is malformed for
\* the first pass; a run that returns had no malformed line at all; and the
\* exception of a failed run is the one raised by the call made for the
\* smallest-numbered line malformed for the first pass if there is one,
\* whatever the second pass would say of the lines before it, and otherwise
\* by the call made for the smallest-numbered line malformed for the second
\* pass.  A failed run returns nothing.
C5_FirstErrorInProcessingOrder ==
    LET bad1 == FirstPassFaults(lines)
        bad2 == SecondPassFaults(lines)
    IN  /\ pc \in {"pass1", "pass2", "done"} => bad1 = {}
        /\ pc = "pass2" => \A j \in bad2 : ~Encoded(lines, j)
        /\ pc = "done" => bad2 = {}
        /\ pc = "error" =>
            /\ returned = NotReturned
            /\ raised # NoErr
            /\ bad1 \cup bad2 # {}
            /\ raised = outcome.raised
            /\ IF bad1 # {}
               THEN /\ call.line_number = Min(bad1)
                    /\ raised.msg = FirstPassFault(lines, Min(bad1))
               ELSE /\ call.line_number = Min(bad2)
                    /\ raised.type = "HackAssemblyError"
                          => raised.msg = SecondPassFault(lines, Min(bad2))
                    /\ raised.type # "HackAssemblyError"
                          => SecondPassFault(lines, Min(bad2)) = "Illegal C-instruction"

\* A line malformed for the second pass stands before the line malformed
\* for the first pass, and the error is that of the later line.
C5_Witness ==
    /\ pc = "error"
    /\ FirstPassFaults(lines) # {}
    /\ SecondPassFaults(lines) # {}
    /\ Min(SecondPassFaults(lines)) < Min(FirstPassFaults(lines))
    /\ call.line_number = Min(FirstPassFaults(lines))
    /\ raised.line = Min(FirstPassFaults(lines))
    /\ returned = NotReturned

-----------------------------------------------------------------------------
(* C4 *)

\* process_c_instruction has been called alone.
CalledProcessC == pc = "called" /\ call.op = "process_c_instruction"

\* Every instruction [dest=]comp[;jump] whose parts are in the tables, with
\* the word C4 gives it.
ExpectedWords ==
    {[instruction |-> Compose(d, c, j),
      word |-> <<"1", "1", "1">>
               \o <<IF \E i \in 1..Len(c) : c[i] = "M" THEN "1" ELSE "0">>
               \o _COMP[[i \in 1..Len(c) |-> IF c[i] = "M" THEN "A" ELSE c[i]]]
               \o _DEST[d] \o _JUMP[j]] :
        d \in DOMAIN _DEST, c \in CompMnemonics, j \in DOMAIN _JUMP}

\* C4: for an instruction [dest=]comp[;jump] whose parts are in the tables,
\* process_c_instruction returns 111, then a, which is 1 exactly when comp
\* holds an 'M', then the comp bits of comp with 'A' for every 'M', then
\* the dest bits and the jump bits (000 for an absent part).
C4_CInstructionWord ==
    CalledProcessC =>
        \A e \in ExpectedWords :
            call.instruction = e.instruction =>
                outcome = [raised |-> NoErr, ret |-> e.word]

\* M=D;JMP, with an 'M' in dest and in jump and none in comp, has a = 0.
C4_Witness ==
    /\ CalledProcessC
    /\ call.instruction = <<"M", "=", "D", ";", "J", "M", "P">>
    /\ outcome.ret = <<"1", "1", "1", "0", "0", "0", "1", "1", "0", "0",
                       "0", "0", "1", "1", "1", "1">>

-----------------------------------------------------------------------------
(* C6 *)

\* C6: process_c_instruction either returns a 16-character word or fails
\* with the error 'Illegal C-instruction', wherever '=' and ';' stand.
C6_WordOrIllegalInstruction ==
    CalledProcessC =>
        \/ outcome.raised = NoErr /\ IsWord(outcome.ret)
        \/ outcome.raised = HackAssemblyError("Illegal C-instruction",
                                              call.line_number, call.instruction)

-----------------------------------------------------------------------------
(* C8 *)

\* No name leaves the table and no name changes its address.
TableKept ==
    \A name \in DOMAIN symbol_table :
        name \in DOMAIN symbol_table' /\ symbol_table'[name] = symbol_table[name]

\* The 23 predefined symbols are in the table with their addresses, and
\* are all of the table before the first call.
PredefinedKept ==
    /\ Cardinality(DOMAIN Predefined) = 23
    /\ n = 0 => symbol_table = Predefined
    /\ \A name \in DOMAIN Predefined :
        name \in DOMAIN symbol_table /\ symbol_table[name] = Predefined[name]

\* C8: whatever first_pass and process_instruction calls are made on one
\* assembler, in whatever order, the table keeps every name it ever held at
\* the address the name was first given, and holds the 23 predefined
\* symbols at their addresses.
C8_TableOnlyGrows == [][TableKept]_vars /\ []PredefinedKept

\* first_pass has refused to define as a label a name that
\* process_instruction had allocated as a variable, in a table that holds
\* a label too.
C8_Witness ==
    /\ pc = "caller"
    /\ call.op = "first_pass"
    /\ outcome.raised.msg = "is already defined"
    /\ outcome.raised.arg \in DOMAIN symbol_table
    /\ symbol_table[outcome.raised.arg] >= 16
    /\ outcome.raised.arg \notin DOMAIN Predefined
    /\ \E name \in DOMAIN symbol_table \ DOMAIN Predefined :
          symbol_table[name] < 16

-----------------------------------------------------------------------------
(* C10 *)

\* strip_down has been called alone.
CalledStripDown == pc = "called" /\ call.op = "strip_down"

StraySlashError == HackAssemblyError("Invalid '/'", call.line_number, <<>>)

\* C10 as stated: the lone '/' and the comment marker are looked for in the
\* raw line.
C10_Original ==
    CalledStripDown =>
        IF LoneSlash(call.instruction)
        THEN outcome.raised = StraySlashError
        ELSE /\ outcome.raised = NoErr
             /\ outcome.ret = NoWs(CutAtMarker(call.instruction))

\* C10, amended: the lone '/' and the comment marker are looked for in the
\* line with its whitespace removed.  If that holds a '/' which no '/'
\* follows immediately and which lies before any '//', strip_down fails
\* with the syntax error; otherwise it returns that line cut at its first
\* '//'.
C10_StripDown ==
    CalledStripDown =>
        IF LoneSlash(NoWs(call.instruction))
        THEN outcome.raised = StraySlashError
        ELSE /\ outcome.raised = NoErr
             /\ outcome.ret = CutAtMarker(NoWs(call.instruction))

\* Two slashes with a space between them are a comment marker: the line
\* 'A/ /A' gives 'A'.
C10_Witness ==
    /\ CalledStripDown
    /\ call.instruction = <<"A", "/", " ", "/", "A">>
    /\ outcome.raised = NoErr
    /\ outcome.ret = <<"A">>

====
